---------------------------- MODULE Spec2Model ----------------------------
(***************************************************************************)
(* Model of Project2/src/als.py: loading the ratings (preprocess_data),    *)
(* filtering and splitting them (get_number_per, split_data,               *)
(* split_for_cv), the ALS solver (init_MF, update_movie_feature,           *)
(* update_user_feature, compute_error, ALS) and the random-search          *)
(* cross-validator (cv_ALS_random_search); and of Project2/stack.py: the   *)
(* blending of the models' predictions (load_predictions, stack,           *)
(* get_best_weights).                                                      *)
(*                                                                         *)
(* Conventions.                                                            *)
(*  - A sparse matrix is [shape |-> <<nr, nc>>, val |-> f] with f a        *)
(*    function on (0..nr-1) \X (0..nc-1); the value 0 is "not stored", as  *)
(*    in scipy's lil_matrix, whose nonzero() lists the non-zero entries.   *)
(*    Indices are 0-based as in the source.  Python lists are sequences.   *)
(*  - Floating-point numbers are fixed-point integers in units of 1/Scale, *)
(*    every product and quotient rounded down to a unit.                   *)
(*  - num_features is 1 in the model: a factor matrix F x n is a function  *)
(*    0..n-1 -> number, M @ M.T is a sum of squares and np.linalg.solve    *)
(*    is a division that raises LinAlgError on a zero matrix.              *)
(*  - Each variable holds the locals of one function of the source; every  *)
(*    specification runs one function and leaves the other frames idle.    *)
(***************************************************************************)
EXTENDS Integers, Sequences, FiniteSets, TLC

VARIABLES load, split, als, cv, helper, stack

vars == <<load, split, als, cv, helper, stack>>

(***************************************************************************)
(* Bounds of the model.                                                    *)
(***************************************************************************)
Scale == 1000

NumUsers == 2

NumMovies == 2

MaxObs == 2

MaxIterations == 2

RatingValues == {1 * Scale, 2 * Scale}

Idle == [pc |-> "idle"]

(***************************************************************************)
(* Fixed-point arithmetic.                                                 *)
(***************************************************************************)
FMul(a, b) == (a * b) \div Scale

FDiv(a, b) == (a * Scale) \div b

Abs(x) == IF x < 0 THEN -x ELSE x

RECURSIVE SqrtSearch(_, _, _)
SqrtSearch(n, lo, hi) ==
    IF lo >= hi THEN lo
    ELSE LET mid == (lo + hi + 1) \div 2
         IN  IF mid * mid <= n THEN SqrtSearch(n, mid, hi)
             ELSE SqrtSearch(n, lo, mid - 1)

\* np.sqrt on a fixed-point number: the largest r with r*r <= x*Scale.
FSqrt(x) == SqrtSearch(x * Scale, 0, 40000)

RECURSIVE SumSeq(_)
SumSeq(s) == IF s = <<>> THEN 0 ELSE Head(s) + SumSeq(Tail(s))

SeqToSet(s) == {s[i] : i \in 1..Len(s)}

(***************************************************************************)
(* Sparse matrices.                                                        *)
(***************************************************************************)
LilMatrix(nr, nc) ==
    [shape |-> <<nr, nc>>, val |-> [p \in (0..nr-1) \X (0..nc-1) |-> 0]]

Rows(m) == 0..(m.shape[1] - 1)

Cols(m) == 0..(m.shape[2] - 1)

Nnz(m) == Cardinality({p \in DOMAIN m.val : m.val[p] # 0})

RECURSIVE NonzeroFrom(_, _)
NonzeroFrom(m, k) ==
    IF k >= m.shape[1] * m.shape[2] THEN <<>>
    ELSE LET p == <<k \div m.shape[2], k % m.shape[2]>>
         IN  IF m.val[p] # 0 THEN <<p>> \o NonzeroFrom(m, k + 1)
             ELSE NonzeroFrom(m, k + 1)

\* list(zip(*m.nonzero())): the non-zero positions in row-major order.
Nonzero(m) == NonzeroFrom(m, 0)

\* m.getnnz(axis=0): stored entries per column.
GetnnzAxis0(m) ==
    [c \in Cols(m) |-> Cardinality({r \in Rows(m) : m.val[<<r, c>>] # 0})]

\* m.getnnz(axis=1): stored entries per row.
GetnnzAxis1(m) ==
    [r \in Rows(m) |-> Cardinality({c \in Cols(m) : m.val[<<r, c>>] # 0})]

\* m[:, col].nonzero()[0]: the rows of column col that hold a value, ascending.
RECURSIVE ColumnRowsFrom(_, _, _)
ColumnRowsFrom(m, col, r) ==
    IF r >= m.shape[1] THEN <<>>
    ELSE IF m.val[<<r, col>>] # 0 THEN <<r>> \o ColumnRowsFrom(m, col, r + 1)
         ELSE ColumnRowsFrom(m, col, r + 1)

ColumnRows(m, col) == ColumnRowsFrom(m, col, 0)

(***************************************************************************)
(* group_by and build_index_groups.                                        *)
(***************************************************************************)
\* One step of sorted(): x goes behind every element whose key is <= its own.
RECURSIVE InsertSorted(_, _, _)
InsertSorted(s, x, index) ==
    IF s = <<>> THEN <<x>>
    ELSE IF Head(s)[index + 1] <= x[index + 1]
         THEN <<Head(s)>> \o InsertSorted(Tail(s), x, index)
         ELSE <<x>> \o s

\* The list as it is, not sorted by the key.
SortedBy_AsGiven(data, index) == data

RECURSIVE SortedBy(_, _)
SortedBy(data, index) ==
    IF data = <<>> THEN <<>>
    ELSE InsertSorted(SortedBy(SubSeq(data, 1, Len(data) - 1), index),
                      data[Len(data)], index)

\* itertools.groupby: runs of consecutive elements with the same key.
RECURSIVE GroupRuns(_, _)
GroupRuns(s, index) ==
    IF s = <<>> THEN <<>>
    ELSE LET rest == GroupRuns(Tail(s), index)
             key  == Head(s)[index + 1]
         IN  IF rest # <<>> /\ rest[1][1] = key
             THEN <<<<key, <<Head(s)>> \o rest[1][2]>>>> \o Tail(rest)
             ELSE <<<<key, <<Head(s)>>>>>> \o rest

group_by(data, index) == GroupRuns(SortedBy(data, index), index)

\* [(g, np.array([v[other] for v in value])) for g, value in groups]
Project(groups, other) ==
    [i \in 1..Len(groups) |->
        <<groups[i][1],
          [j \in 1..Len(groups[i][2]) |-> groups[i][2][j][other + 1]]>>]

build_index_groups(train) ==
    LET nz_train == Nonzero(train)
    IN  <<nz_train,
          Project(group_by(nz_train, 0), 1),
          Project(group_by(nz_train, 1), 0)>>


(***************************************************************************)
(* The results of calls that may raise.                                    *)
(***************************************************************************)
Ok(v) == [err |-> "none", val |-> v]

Raise(e) == [err |-> e, val |-> 0]

(***************************************************************************)
(* init_MF, compute_error and the two factor updates.                      *)
(***************************************************************************)
NumSeeds == 2

Seeds == 1..NumSeeds

LambdaValues == {0, Scale}

\* The k-th draw of np.random.rand after np.random.seed(seed): a number of
\* [0, 1), here one of 0, 1/4, 1/2, 3/4.
RandUnit(seed, k) == (((seed * 7 + k * 5) % 4) * Scale) \div 4

\* movie_features is drawn first (num_movie numbers), user_features second.
init_MF(train, weight, seed) ==
    LET num_user  == train.shape[1]
        num_movie == train.shape[2]
    IN  [movie_features |->
            [m \in 0..(num_movie - 1) |-> FMul(weight, RandUnit(seed, m))],
         user_features |->
            [u \in 0..(num_user - 1) |->
                FMul(weight, RandUnit(seed, num_movie + u))]]

\* mse += (data[row,col] - movie.T.dot(user))**2 over nz, in list order.
RECURSIVE SquaredErrors(_, _, _, _)
SquaredErrors(data, movie_features, user_features, nz) ==
    IF nz = <<>> THEN 0
    ELSE LET row == Head(nz)[1]
             col == Head(nz)[2]
             d   == data.val[<<row, col>>]
                      - FMul(movie_features[col], user_features[row])
         IN  FMul(d, d)
               + SquaredErrors(data, movie_features, user_features, Tail(nz))

\* An RMSE of 0 for an empty nz instead of the division by len(nz) = 0.
compute_error_ZeroWhenEmpty(data, movie_features, user_features, nz) ==
    IF Len(nz) = 0 THEN Ok(0)
    ELSE Ok(FSqrt(SquaredErrors(data, movie_features, user_features, nz)
                    \div Len(nz)))

\* np.sqrt(1.0*mse/len(nz)); with nz empty mse is the int 0 and the division
\* raises ZeroDivisionError.
compute_error(data, movie_features, user_features, nz) ==
    IF Len(nz) = 0 THEN Raise("ZeroDivisionError")
    ELSE Ok(FSqrt(SquaredErrors(data, movie_features, user_features, nz)
                    \div Len(nz)))

\* np.linalg.solve(A, V) for a 1 x 1 matrix A.
Solve(A, V) == IF A = 0 THEN Raise("LinAlgError") ELSE Ok(FDiv(V, A))

\* M = user_features[:,user]; V = M @ train[user,movie]
MovieV(train, user_features, movie, user) ==
    SumSeq([i \in 1..Len(user) |->
              FMul(user_features[user[i]], train.val[<<user[i], movie>>])])

\* MovieA with the observation count left out of the regularisation term.
MovieA_NoCount(user_features, lambda_movie, nnz_users_per_movie, movie, user) ==
    SumSeq([i \in 1..Len(user) |->
              FMul(user_features[user[i]], user_features[user[i]])])
      + lambda_movie

\* A = M @ M.T + nnz_users_per_movie[movie] * lambda_I
MovieA(user_features, lambda_movie, nnz_users_per_movie, movie, user) ==
    SumSeq([i \in 1..Len(user) |->
              FMul(user_features[user[i]], user_features[user[i]])])
      + nnz_users_per_movie[movie] * lambda_movie

RECURSIVE MovieLoop(_, _, _, _, _, _)
MovieLoop(train, user_features, lambda_movie, nnz_users_per_movie, groups, updated) ==
    IF groups = <<>> THEN Ok(updated)
    ELSE LET movie  == Head(groups)[1]
             user   == Head(groups)[2]
             Z_star == Solve(MovieA(user_features, lambda_movie,
                                    nnz_users_per_movie, movie, user),
                             MovieV(train, user_features, movie, user))
         IN  IF Z_star.err # "none" THEN Z_star
             ELSE MovieLoop(train, user_features, lambda_movie,
                            nnz_users_per_movie, Tail(groups),
                            [updated EXCEPT ![movie] = Z_star.val])

\* update_movie_feature starting from np.ones instead of np.zeros.
update_movie_feature_ones(train, user_features, lambda_movie, nnz_users_per_movie, nz_movie_userindices) ==
    MovieLoop(train, user_features, lambda_movie, nnz_users_per_movie,
              nz_movie_userindices,
              [m \in DOMAIN nnz_users_per_movie |-> Scale])

\* updated_movie_features = np.zeros(...), then one solve per group.
update_movie_feature(train, user_features, lambda_movie, nnz_users_per_movie, nz_movie_userindices) ==
    MovieLoop(train, user_features, lambda_movie, nnz_users_per_movie,
              nz_movie_userindices,
              [m \in DOMAIN nnz_users_per_movie |-> 0])

\* M = movie_features[:,movie]; V = M @ train[user,movie].T
UserV(train, movie_features, user, movie) ==
    SumSeq([i \in 1..Len(movie) |->
              FMul(movie_features[movie[i]], train.val[<<user, movie[i]>>])])

\* A = M @ M.T + nnz_movies_per_user[user] * lambda_I
UserA(movie_features, lambda_user, nnz_movies_per_user, user, movie) ==
    SumSeq([i \in 1..Len(movie) |->
              FMul(movie_features[movie[i]], movie_features[movie[i]])])
      + nnz_movies_per_user[user] * lambda_user

RECURSIVE UserLoop(_, _, _, _, _, _)
UserLoop(train, movie_features, lambda_user, nnz_movies_per_user, groups, updated) ==
    IF groups = <<>> THEN Ok(updated)
    ELSE LET user   == Head(groups)[1]
             movie  == Head(groups)[2]
             W_star == Solve(UserA(movie_features, lambda_user,
                                   nnz_movies_per_user, user, movie),
                             UserV(train, movie_features, user, movie))
         IN  IF W_star.err # "none" THEN W_star
             ELSE UserLoop(train, movie_features, lambda_user,
                           nnz_movies_per_user, Tail(groups),
                           [updated EXCEPT ![user] = W_star.val])

update_user_feature(train, movie_features, lambda_user, nnz_movies_per_user, nz_user_movieindices) ==
    UserLoop(train, movie_features, lambda_user, nnz_movies_per_user,
             nz_user_movieindices,
             [u \in DOMAIN nnz_movies_per_user |-> 0])

(***************************************************************************)
(* ALS.  The frame als holds the function's arguments and locals; pc is    *)
(* the next statement: "movie" (line 220-221), "user" (224), "error"       *)
(* (227-235), "returned" (239), "raised" (an exception left the function). *)
(* updates_movie and updates_user are history fields: the number of        *)
(* assignments to movie_features and user_features in the loop.            *)
(***************************************************************************)
\* stop_criterion = 1e-5 = 1 / StopCriterionInv
StopCriterionInv == 100000

\* The rule that never finds the change small enough.
BelowStopCriterion_Never(change) == FALSE

\* if (change < stop_criterion), stop_criterion being 1e-5
BelowStopCriterion(change) ==
    IF change >= Scale THEN FALSE ELSE change * StopCriterionInv < Scale

TrainMatrices ==
    {m \in [shape : {<<NumUsers, NumMovies>>},
            val : [(0..(NumUsers - 1)) \X (0..(NumMovies - 1))
                     -> {0} \cup RatingValues]] : Nnz(m) <= MaxObs}

\* Lines 200-218: the state in which the while loop is entered.
ALSEntry(train, lambda_movie, lambda_user, max_weight, iterations, seed) ==
    LET mf == init_MF(train, max_weight, seed)
        ig == build_index_groups(train)
    IN  [pc |-> "movie",
         train |-> train,
         lambda_movie |-> lambda_movie,
         lambda_user |-> lambda_user,
         max_weight |-> max_weight,
         iterations |-> iterations,
         seed |-> seed,
         change |-> Scale,
         error_list |-> <<0, 0>>,
         it |-> 0,
         nz_train |-> Nonzero(train),
         movie_features |-> mf.movie_features,
         user_features |-> mf.user_features,
         nnz_users_per_movie |-> GetnnzAxis0(train),
         nnz_movies_per_user |-> GetnnzAxis1(train),
         nz_user_movieindices |-> ig[2],
         nz_movie_userindices |-> ig[3],
         train_rmse |-> 0,
         err |-> "none",
         updates_movie |-> 0,
         updates_user |-> 0]

InitALS ==
    /\ als \in {ALSEntry(t, lm, lu, Scale, n, s) :
                  t \in TrainMatrices, lm \in LambdaValues,
                  lu \in LambdaValues, n \in 0..MaxIterations, s \in Seeds}
    /\ load = Idle
    /\ split = Idle
    /\ cv = Idle
    /\ helper = Idle
    /\ stack = Idle

\* The loop condition with <= for <.
LoopCondition_OffByOne(it, iterations) == it <= iterations

\* while(it < iterations)
LoopCondition(it, iterations) == it < iterations

\* The loop body starts: movie_features = update_movie_feature(...)
ALS_UpdateMovie ==
    /\ als.pc = "movie"
    /\ LoopCondition(als.it, als.iterations)
    /\ LET r == update_movie_feature(als.train, als.user_features,
                                     als.lambda_movie,
                                     als.nnz_users_per_movie,
                                     als.nz_movie_userindices)
       IN  \/ /\ r.err = "none"
              /\ als' = [als EXCEPT !.pc = "user", !.movie_features = r.val,
                                    !.updates_movie = als.updates_movie + 1]
           \/ /\ r.err # "none"
              /\ als' = [als EXCEPT !.pc = "raised", !.err = r.err]
    /\ UNCHANGED <<load, split, cv, helper, stack>>

\* user_features = update_user_feature(...)
ALS_UpdateUser ==
    /\ als.pc = "user"
    /\ LET r == update_user_feature(als.train, als.movie_features,
                                    als.lambda_user,
                                    als.nnz_movies_per_user,
                                    als.nz_user_movieindices)
       IN  \/ /\ r.err = "none"
              /\ als' = [als EXCEPT !.pc = "error", !.user_features = r.val,
                                    !.updates_user = als.updates_user + 1]
           \/ /\ r.err # "none"
              /\ als' = [als EXCEPT !.pc = "raised", !.err = r.err]
    /\ UNCHANGED <<load, split, cv, helper, stack>>

\* Lines 227-235: the RMSE, the stopping rule and it += 1.
ALS_ComputeError ==
    /\ als.pc = "error"
    /\ LET r == compute_error(als.train, als.movie_features,
                              als.user_features, als.nz_train)
       IN  \/ /\ r.err # "none"
              /\ als' = [als EXCEPT !.pc = "raised", !.err = r.err]
           \/ /\ r.err = "none"
              /\ LET el == Append(als.error_list, r.val)
                     ch == Abs(el[Len(el)] - el[Len(el) - 1])
                 IN  \/ /\ BelowStopCriterion(ch)
                        /\ als' = [als EXCEPT !.pc = "returned",
                                              !.train_rmse = r.val,
                                              !.error_list = el,
                                              !.change = ch]
                     \/ /\ ~BelowStopCriterion(ch)
                        /\ als' = [als EXCEPT !.pc = "movie",
                                              !.train_rmse = r.val,
                                              !.error_list = el,
                                              !.change = ch,
                                              !.it = als.it + 1]
    /\ UNCHANGED <<load, split, cv, helper, stack>>

\* The loop condition fails: return user_features, movie_features.
ALS_Return ==
    /\ als.pc = "movie"
    /\ ~LoopCondition(als.it, als.iterations)
    /\ als' = [als EXCEPT !.pc = "returned"]
    /\ UNCHANGED <<load, split, cv, helper, stack>>

NextALS ==
    \/ ALS_UpdateMovie
    \/ ALS_UpdateUser
    \/ ALS_ComputeError
    \/ ALS_Return

SpecALS == InitALS /\ [][NextALS]_vars

(***************************************************************************)
(* get_number_per, split_data and split_for_cv.  The frame split holds the *)
(* arguments and locals of the one that runs (fn).  pc of split_data:      *)
(* "filter" (lines 95-109), "loop" (112-122), "returned" (128); pc of      *)
(* split_for_cv: "fold" (314-316), "movie" (317-327), "returned" (332).    *)
(***************************************************************************)
SplitMaxObs == 3

MaxFolds == 2

\* p_test as a fraction <<numerator, denominator>>: 0, 0.2, 0.5 and 1.
PTestValues == {<<0, 1>>, <<1, 5>>, <<1, 2>>, <<1, 1>>}

\* The matrices given to the split: up to SplitMaxObs observed entries, the
\* rating of an entry fixed by its position so that neighbours differ.
RatingsMatrices ==
    {[shape |-> <<NumUsers, NumMovies>>,
      val |-> [p \in (0..(NumUsers - 1)) \X (0..(NumMovies - 1)) |->
                  IF p \in obs THEN (1 + ((p[1] + p[2]) % 2)) * Scale ELSE 0]] :
       obs \in {o \in SUBSET ((0..(NumUsers - 1)) \X (0..(NumMovies - 1))) :
                  Cardinality(o) <= SplitMaxObs}}

\* (ratings != 0).sum(axis=0) and (ratings != 0).sum(axis=1)
get_number_per(ratings) ==
    [num_users_per_movie |->
        [c \in Cols(ratings) |->
            Cardinality({r \in Rows(ratings) : ratings.val[<<r, c>>] # 0})],
     num_movies_per_user |->
        [r \in Rows(ratings) |->
            Cardinality({c \in Cols(ratings) : ratings.val[<<r, c>>] # 0})]]

\* np.where(counts >= min_num_ratings)[0] with > for >=.
RECURSIVE WhereAtLeast_Strict(_, _, _)
WhereAtLeast_Strict(counts, min_num_ratings, i) ==
    IF i \notin DOMAIN counts THEN <<>>
    ELSE IF counts[i] > min_num_ratings
         THEN <<i>> \o WhereAtLeast_Strict(counts, min_num_ratings, i + 1)
         ELSE WhereAtLeast_Strict(counts, min_num_ratings, i + 1)

\* np.where(counts >= min_num_ratings)[0], from index i on: ascending.
RECURSIVE WhereAtLeast(_, _, _)
WhereAtLeast(counts, min_num_ratings, i) ==
    IF i \notin DOMAIN counts THEN <<>>
    ELSE IF counts[i] >= min_num_ratings
         THEN <<i>> \o WhereAtLeast(counts, min_num_ratings, i + 1)
         ELSE WhereAtLeast(counts, min_num_ratings, i + 1)

\* ratings[valid_users, :][:, valid_movies]
Submatrix(ratings, valid_users, valid_movies) ==
    [shape |-> <<Len(valid_users), Len(valid_movies)>>,
     val |-> [p \in (0..(Len(valid_users) - 1)) \X (0..(Len(valid_movies) - 1))
                |-> ratings.val[<<valid_users[p[1] + 1], valid_movies[p[2] + 1]>>]]]

\* list(set(nz_movies)): the columns that hold a value, ascending.
RECURSIVE MovieListFrom(_, _)
MovieListFrom(m, c) ==
    IF c >= m.shape[2] THEN <<>>
    ELSE IF \E r \in Rows(m) : m.val[<<r, c>>] # 0
         THEN <<c>> \o MovieListFrom(m, c + 1)
         ELSE MovieListFrom(m, c + 1)

MovieList(m) == MovieListFrom(m, 0)

\* The sample size forced to at least one.
SampleSize_AtLeastOne(len, p_test) ==
    IF (len * p_test[1]) \div p_test[2] = 0 THEN 1
    ELSE (len * p_test[1]) \div p_test[2]

\* int(len(row) * p_test)
SampleSize(len, p_test) == (len * p_test[1]) \div p_test[2]

\* The outcomes of np.random.choice(row, size): draws with replacement.
Choices(row, size) == [1..size -> SeqToSet(row)]

\* The residual as the rows behind the first len(selects) rows.
Residual_Tail(row, selects) ==
    {row[i] : i \in (Len(selects) + 1)..Len(row)}

\* The residual without the selected rows taken out.
Residual_All(row, selects) == SeqToSet(row)

\* list(set(row) - set(selects))
Residual(row, selects) == SeqToSet(row) \ SeqToSet(selects)

\* target[rows, movie] = source[rows, movie]
AssignColumn(target, source, rows, movie) ==
    [target EXCEPT !.val =
        [p \in DOMAIN target.val |->
            IF p[2] = movie /\ p[1] \in rows THEN source.val[p]
            ELSE target.val[p]]]

SplitDataEntry(ratings, min_num_ratings, p_test) ==
    [pc |-> "filter",
     fn |-> "split_data",
     ratings |-> ratings,
     num_users_per_movie |-> get_number_per(ratings).num_users_per_movie,
     num_movies_per_user |-> get_number_per(ratings).num_movies_per_user,
     min_num_ratings |-> min_num_ratings,
     p_test |-> p_test,
     valid_movies |-> <<>>,
     valid_users |-> <<>>,
     valid_ratings |-> LilMatrix(0, 0),
     train |-> LilMatrix(0, 0),
     test |-> LilMatrix(0, 0),
     movies |-> <<>>,
     selects |-> <<>>]

SplitForCvEntry(train, p_test, k_fold) ==
    [pc |-> "fold",
     fn |-> "split_for_cv",
     train |-> train,
     p_test |-> p_test,
     k_fold |-> k_fold,
     k |-> 0,
     train_tr |-> LilMatrix(0, 0),
     test_tr |-> LilMatrix(0, 0),
     movies |-> <<>>,
     selects |-> <<>>,
     train_tr_list |-> <<>>,
     test_tr_list |-> <<>>]

InitSplit ==
    /\ split \in
          {SplitDataEntry(r, n, p) :
              r \in RatingsMatrices, n \in 0..MaxObs, p \in PTestValues}
          \cup
          {SplitForCvEntry(r, p, k) :
              r \in RatingsMatrices, p \in PTestValues, k \in 1..MaxFolds}
    /\ load = Idle
    /\ als = Idle
    /\ cv = Idle
    /\ helper = Idle
    /\ stack = Idle

\* Lines 95-109: the valid submatrix and the two empty result matrices.
SplitData_Filter ==
    /\ split.pc = "filter"
    /\ LET valid_movies == WhereAtLeast(split.num_users_per_movie,
                                        split.min_num_ratings, 0)
           valid_users  == WhereAtLeast(split.num_movies_per_user,
                                        split.min_num_ratings, 0)
           valid_ratings == Submatrix(split.ratings, valid_users, valid_movies)
       IN  split' = [split EXCEPT
                        !.pc = "loop",
                        !.valid_movies = valid_movies,
                        !.valid_users = valid_users,
                        !.valid_ratings = valid_ratings,
                        !.train = LilMatrix(valid_ratings.shape[1],
                                            valid_ratings.shape[2]),
                        !.test = LilMatrix(valid_ratings.shape[1],
                                           valid_ratings.shape[2]),
                        !.movies = MovieList(valid_ratings)]
    /\ UNCHANGED <<load, als, cv, helper, stack>>

\* Lines 112-122: one movie of the loop, for one outcome of the draw.
SplitData_Movie ==
    /\ split.pc = "loop"
    /\ split.movies # <<>>
    /\ LET movie == Head(split.movies)
           row   == ColumnRows(split.valid_ratings, movie)
       IN  \E selects \in Choices(row, SampleSize(Len(row), split.p_test)) :
              LET residual == Residual(row, selects)
                  train == AssignColumn(split.train, split.valid_ratings,
                                        residual, movie)
              IN  \/ /\ split.p_test[1] > 0
                     /\ split' = [split EXCEPT
                                     !.train = train,
                                     !.test = AssignColumn(split.test,
                                                 split.valid_ratings,
                                                 SeqToSet(selects), movie),
                                     !.movies = Tail(split.movies),
                                     !.selects = selects]
                  \/ /\ ~(split.p_test[1] > 0)
                     /\ split' = [split EXCEPT
                                     !.train = train,
                                     !.movies = Tail(split.movies),
                                     !.selects = selects]
    /\ UNCHANGED <<load, als, cv, helper, stack>>

\* Line 128: return valid_ratings, train, test
SplitData_Return ==
    /\ split.pc = "loop"
    /\ split.movies = <<>>
    /\ split' = [split EXCEPT !.pc = "returned"]
    /\ UNCHANGED <<load, als, cv, helper, stack>>

\* Lines 314-316: a fold starts with two newly allocated matrices.
SplitCv_NewFold ==
    /\ split.pc = "fold"
    /\ split.k < split.k_fold
    /\ split' = [split EXCEPT
                    !.pc = "movie",
                    !.train_tr = LilMatrix(split.train.shape[1],
                                           split.train.shape[2]),
                    !.test_tr = LilMatrix(split.train.shape[1],
                                          split.train.shape[2]),
                    !.movies = MovieList(split.train)]
    /\ UNCHANGED <<load, als, cv, helper, stack>>

\* Lines 317-327: one movie of the fold, for one outcome of the draw.
SplitCv_Movie ==
    /\ split.pc = "movie"
    /\ split.movies # <<>>
    /\ LET movie == Head(split.movies)
           row   == ColumnRows(split.train, movie)
       IN  \E selects \in Choices(row, SampleSize(Len(row), split.p_test)) :
              split' = [split EXCEPT
                           !.train_tr = AssignColumn(split.train_tr,
                                           split.train,
                                           Residual(row, selects), movie),
                           !.test_tr = AssignColumn(split.test_tr,
                                           split.train,
                                           SeqToSet(selects), movie),
                           !.movies = Tail(split.movies),
                           !.selects = selects]
    /\ UNCHANGED <<load, als, cv, helper, stack>>

\* Lines 329-330: the fold's matrices are appended to the two lists.
SplitCv_EndFold ==
    /\ split.pc = "movie"
    /\ split.movies = <<>>
    /\ split' = [split EXCEPT
                    !.pc = "fold",
                    !.k = split.k + 1,
                    !.train_tr_list = Append(split.train_tr_list,
                                             split.train_tr),
                    !.test_tr_list = Append(split.test_tr_list,
                                            split.test_tr)]
    /\ UNCHANGED <<load, als, cv, helper, stack>>

\* Line 332: return train_tr_list, test_tr_list
SplitCv_Return ==
    /\ split.pc = "fold"
    /\ ~(split.k < split.k_fold)
    /\ split' = [split EXCEPT !.pc = "returned"]
    /\ UNCHANGED <<load, als, cv, helper, stack>>

NextSplit ==
    \/ SplitData_Filter
    \/ SplitData_Movie
    \/ SplitData_Return
    \/ SplitCv_NewFold
    \/ SplitCv_Movie
    \/ SplitCv_EndFold
    \/ SplitCv_Return

SpecSplit == InitSplit /\ [][NextSplit]_vars

(***************************************************************************)
(* preprocess_data, on the records deal_line parsed: <<row, col, rating>>. *)
(* pc: "statistics" (lines 41-45), "build" (46-47), "returned" (48),       *)
(* "raised".                                                               *)
(***************************************************************************)
MaxRecords == 2

RecordValues ==
    {<<r, c, v>> : r \in (-1)..NumUsers, c \in (-1)..NumMovies,
                   v \in RatingValues}

RECURSIVE SeqsUpTo(_, _)
SeqsUpTo(S, n) ==
    IF n = 0 THEN {<<>>}
    ELSE LET shorter == SeqsUpTo(S, n - 1)
         IN  shorter \cup {Append(q, x) : q \in {t \in shorter : Len(t) = n - 1},
                                          x \in S}

Max(S) == CHOOSE x \in S : \A y \in S : y <= x

Min(S) == CHOOSE x \in S : \A y \in S : x <= y

\* statistics(data): min and max of the row and of the column indices.
statistics(data) ==
    LET row == {data[i][1] : i \in 1..Len(data)}
        col == {data[i][2] : i \in 1..Len(data)}
    IN  <<Min(row), Max(row), Min(col), Max(col)>>

\* The position scipy resolves an index to on an axis of length n: a
\* negative index counts from the end, an index outside -n..n-1 raises.
ResolveIndex(i, n) ==
    IF i < -n \/ i >= n THEN Raise("IndexError")
    ELSE IF i < 0 THEN Ok(i + n) ELSE Ok(i)

LoadEntry(data) ==
    [pc |-> "statistics",
     data |-> data,
     max_row |-> 0,
     max_col |-> 0,
     ratings |-> LilMatrix(0, 0),
     i |-> 1,
     err |-> "none"]

InitLoad ==
    /\ load \in {LoadEntry(d) : d \in SeqsUpTo(RecordValues, MaxRecords)}
    /\ split = Idle
    /\ als = Idle
    /\ cv = Idle
    /\ helper = Idle
    /\ stack = Idle

\* Lines 41-45: min() and max() of an empty data set raise ValueError, and so
\* does a matrix with a negative dimension.
Load_Statistics ==
    /\ load.pc = "statistics"
    /\ \/ /\ load.data = <<>>
          /\ load' = [load EXCEPT !.pc = "raised", !.err = "ValueError"]
       \/ /\ load.data # <<>>
          /\ LET st == statistics(load.data)
             IN  \/ /\ (st[2] < 0 \/ st[4] < 0)
                    /\ load' = [load EXCEPT !.pc = "raised",
                                            !.err = "ValueError"]
                 \/ /\ ~(st[2] < 0 \/ st[4] < 0)
                    /\ load' = [load EXCEPT !.pc = "build",
                                            !.max_row = st[2],
                                            !.max_col = st[4],
                                            !.ratings = LilMatrix(st[2], st[4])]
    /\ UNCHANGED <<split, als, cv, helper, stack>>

\* Lines 46-47: ratings[row - 1, col - 1] = rating for the next record.
Load_Insert ==
    /\ load.pc = "build"
    /\ load.i <= Len(load.data)
    /\ LET row == load.data[load.i][1]
           col == load.data[load.i][2]
           rating == load.data[load.i][3]
           r == ResolveIndex(row - 1, load.max_row)
           c == ResolveIndex(col - 1, load.max_col)
       IN  \/ /\ (r.err # "none" \/ c.err # "none")
              /\ load' = [load EXCEPT !.pc = "raised", !.err = "IndexError"]
           \/ /\ r.err = "none"
              /\ c.err = "none"
              /\ load' = [load EXCEPT
                             !.i = load.i + 1,
                             !.ratings.val[<<r.val, c.val>>] = rating]
    /\ UNCHANGED <<split, als, cv, helper, stack>>

\* Line 48: return ratings
Load_Return ==
    /\ load.pc = "build"
    /\ load.i > Len(load.data)
    /\ load' = [load EXCEPT !.pc = "returned"]
    /\ UNCHANGED <<split, als, cv, helper, stack>>

NextLoad ==
    \/ Load_Statistics
    \/ Load_Insert
    \/ Load_Return

SpecLoad == InitLoad /\ [][NextLoad]_vars

(***************************************************************************)
(* cv_ALS_random_search.  The frame cv holds its locals; c and f are the   *)
(* positions of the two for loops (candidate and fold).  pc: "fold" (lines *)
(* 277-284), "candidate" (285-295), "final" (297-302), "returned",         *)
(* "raised".  A variable that has no value yet is the empty sequence, one  *)
(* that has a value v is <<v>>.  means is a history field: the test_rmse   *)
(* of every candidate evaluated so far.                                    *)
(*                                                                         *)
(* ALS(train_tr, ...) on a fold is taken by its outcome: here every lambda *)
(* is positive, so that no solve is singular, and the factors it returns   *)
(* give some RMSE on the fold's held-out entries, one of RmseValues.       *)
(***************************************************************************)
NumCandidates == 2

\* k_fold of split_for_cv: the length of train_tr_list and test_tr_list.
KFold == 5

\* best_rmse = 100
InitialBestRmse == 100

\* best_weight = best_lambda_user = best_lambda_movie = best_num_feature = -1
NotFound == -1

\* movies_range and user_range (0.01 .. 1), features_num_range (1 .. 60) and
\* weight_range (1.0 .. 3.0), three values of each.
LambdaRange == <<Scale \div 100, Scale \div 2, Scale>>

FeaturesNumRange == <<1, 2, 3>>

WeightRange == <<Scale, 2 * Scale, 3 * Scale>>

RmseValues == {50 * Scale, 100 * Scale, 150 * Scale}

\* The draw-th number np.random.choice(range, ...) gives after
\* np.random.seed(seed).
CvChoice(range, seed, draw) ==
    range[((seed * 7 + draw * 5 + (draw \div 3)) % Len(range)) + 1]

\* np.mean(rmse_list)
Mean(rmse_list) == SumSeq(rmse_list) \div Len(rmse_list)

\* The comparison with <= for <.
Improves_OrEqual(test_rmse, best_rmse) == test_rmse <= best_rmse

\* if(test_rmse < best_rmse)
Improves(test_rmse, best_rmse) == test_rmse < best_rmse

\* Lines 251-274: the candidates are drawn (lambda_movies first, then
\* lambda_users, nb_features and weights) and the folds are split.
\* nz_test_len is len(nz_test) of the folds: split_for_cv draws
\* int(0.2 * len(row)) rows of each movie in every fold, so that either
\* every fold has held-out entries or none has.
CvEntry(seed, nz_test_len) ==
    [pc |-> "fold",
     lambda_movies |->
        [i \in 1..NumCandidates |-> CvChoice(LambdaRange, seed, i - 1)],
     lambda_users |->
        [i \in 1..NumCandidates |->
            CvChoice(LambdaRange, seed, NumCandidates + i - 1)],
     nb_features |->
        [i \in 1..NumCandidates |->
            CvChoice(FeaturesNumRange, seed, 2 * NumCandidates + i - 1)],
     weights |->
        [i \in 1..NumCandidates |->
            CvChoice(WeightRange, seed, 3 * NumCandidates + i - 1)],
     best_weight |-> NotFound,
     best_lambda_user |-> NotFound,
     best_lambda_movie |-> NotFound,
     best_num_feature |-> NotFound,
     best_rmse |-> InitialBestRmse * Scale,
     bset_lambda_user |-> <<>>,
     nz_test_len |-> [k \in 1..KFold |-> nz_test_len],
     c |-> 1,
     f |-> 1,
     rmse_list |-> <<>>,
     means |-> <<>>,
     result |-> <<>>,
     err |-> "none"]

InitCV ==
    /\ cv \in {CvEntry(s, n) : s \in Seeds, n \in 0..MaxObs}
    /\ load = Idle
    /\ split = Idle
    /\ als = Idle
    /\ helper = Idle
    /\ stack = Idle

\* Lines 278-284, one fold of one candidate: compute_error on the held-out
\* entries raises when there are none, and nothing catches it.
CV_Fold ==
    /\ cv.pc = "fold"
    /\ cv.c <= NumCandidates
    /\ cv.f <= KFold
    /\ \/ /\ cv.nz_test_len[cv.f] = 0
          /\ cv' = [cv EXCEPT !.pc = "raised", !.err = "ZeroDivisionError"]
       \/ /\ cv.nz_test_len[cv.f] # 0
          /\ \E test_tr_rmse \in RmseValues :
                cv' = [cv EXCEPT
                          !.rmse_list = Append(cv.rmse_list, test_tr_rmse),
                          !.f = cv.f + 1]
    /\ UNCHANGED <<load, split, als, helper, stack>>

\* Lines 285-295: the candidate's mean RMSE against the best so far; then
\* the next candidate starts with an empty rmse_list (line 276).
CV_Candidate ==
    /\ cv.pc = "fold"
    /\ cv.c <= NumCandidates
    /\ cv.f > KFold
    /\ LET test_rmse == Mean(cv.rmse_list)
       IN  \/ /\ Improves(test_rmse, cv.best_rmse)
              /\ cv' = [cv EXCEPT
                           !.best_rmse = test_rmse,
                           !.bset_lambda_user = <<cv.lambda_users[cv.c]>>,
                           !.best_lambda_movie = cv.lambda_movies[cv.c],
                           !.best_weight = cv.weights[cv.c],
                           !.best_num_feature = cv.nb_features[cv.c],
                           !.means = Append(cv.means, test_rmse),
                           !.c = cv.c + 1,
                           !.f = 1,
                           !.rmse_list = <<>>]
           \/ /\ ~Improves(test_rmse, cv.best_rmse)
              /\ cv' = [cv EXCEPT
                           !.means = Append(cv.means, test_rmse),
                           !.c = cv.c + 1,
                           !.f = 1,
                           !.rmse_list = <<>>]
    /\ UNCHANGED <<load, split, als, helper, stack>>

\* Reading the sentinel best_lambda_user instead of bset_lambda_user.
ReturnedLambdaUser_Sentinel(frame) == <<frame.best_lambda_user>>

\* The variable lines 297-302 read for the fourth component.
ReturnedLambdaUser(frame) == frame.bset_lambda_user

\* Lines 297-302: the final print and the return read bset_lambda_user, which
\* has no value when no candidate improved on best_rmse.
CV_Final ==
    /\ cv.pc = "fold"
    /\ cv.c > NumCandidates
    /\ \/ /\ ReturnedLambdaUser(cv) = <<>>
          /\ cv' = [cv EXCEPT !.pc = "raised", !.err = "UnboundLocalError"]
       \/ /\ ReturnedLambdaUser(cv) # <<>>
          /\ cv' = [cv EXCEPT
                       !.pc = "returned",
                       !.result = <<cv.best_num_feature, cv.best_weight,
                                    cv.best_lambda_movie,
                                    ReturnedLambdaUser(cv)[1]>>]
    /\ UNCHANGED <<load, split, als, helper, stack>>

NextCV ==
    \/ CV_Fold
    \/ CV_Candidate
    \/ CV_Final

SpecCV == InitCV /\ [][NextCV]_vars

(***************************************************************************)
(* The objects of a cross-validation.  This specification follows          *)
(* cv_ALS_random_search, split_for_cv and ALS by the matrices they         *)
(* allocate, bind and write, not by the numbers in them.  An object is     *)
(* [ctx, n]: the n-th object allocated in the context ctx, which is        *)
(* <<0, 0>> for the caller (the input matrix), <<0, k>> for fold k of      *)
(* split_for_cv and <<c, f>> for the ALS run of candidate c on fold f.     *)
(* The frame cv holds the locals of the three functions as references to   *)
(* objects, and two history fields: writes, the pairs <<context in which   *)
(* the written object was allocated, context that wrote it>>, and uses,    *)
(* the <<object, context, role>> of every matrix an ALS run is given or    *)
(* starts from.  pc: "split", "split_movie", "search", "als", "eval",      *)
(* "returned".                                                             *)
(***************************************************************************)
Caller == <<0, 0>>

\* One object for every allocation, whatever the context.
NewObject_Same(ctx, n) == [ctx |-> Caller, n |-> n]

\* sp.lil_matrix(...), np.zeros(...), np.random.rand(...): a new object.
NewObject(ctx, n) == [ctx |-> ctx, n |-> n]

Unbound == [ctx |-> Caller, n |-> 0]

FoldsEntry(num_nz_movies, iterations) ==
    [pc |-> "split",
     train |-> NewObject(Caller, 1),
     num_nz_movies |-> num_nz_movies,
     iterations |-> iterations,
     k |-> 1,
     movie |-> 0,
     train_tr |-> Unbound,
     test_tr |-> Unbound,
     train_tr_list |-> <<>>,
     test_tr_list |-> <<>>,
     c |-> 1,
     f |-> 1,
     it |-> 0,
     allocated |-> 0,
     als_train |-> Unbound,
     movie_features |-> Unbound,
     user_features |-> Unbound,
     cv_movie_features |-> Unbound,
     cv_user_features |-> Unbound,
     writes |-> {},
     uses |-> {}]

InitFolds ==
    /\ \E n \in 0..NumMovies, iterations \in 0..MaxIterations :
          cv = FoldsEntry(n, iterations)
    /\ load = Idle
    /\ split = Idle
    /\ als = Idle
    /\ helper = Idle
    /\ stack = Idle

\* split_for_cv, lines 314-316: the two matrices of fold k.
Folds_NewFold ==
    /\ cv.pc = "split"
    /\ cv.k <= KFold
    /\ cv' = [cv EXCEPT !.pc = "split_movie",
                        !.train_tr = NewObject(<<0, cv.k>>, 1),
                        !.test_tr = NewObject(<<0, cv.k>>, 2),
                        !.movie = 0]
    /\ UNCHANGED <<load, split, als, helper, stack>>

\* Lines 317-327, one movie: train is read, train_tr and test_tr are written.
Folds_Movie ==
    /\ cv.pc = "split_movie"
    /\ cv.movie < cv.num_nz_movies
    /\ cv' = [cv EXCEPT !.movie = cv.movie + 1,
                        !.writes = @ \cup {<<cv.train_tr.ctx, <<0, cv.k>>>>,
                                           <<cv.test_tr.ctx, <<0, cv.k>>>>}]
    /\ UNCHANGED <<load, split, als, helper, stack>>

\* Lines 329-330.
Folds_EndFold ==
    /\ cv.pc = "split_movie"
    /\ cv.movie >= cv.num_nz_movies
    /\ cv' = [cv EXCEPT !.pc = "split",
                        !.train_tr_list = Append(@, cv.train_tr),
                        !.test_tr_list = Append(@, cv.test_tr),
                        !.k = cv.k + 1]
    /\ UNCHANGED <<load, split, als, helper, stack>>

\* Line 332, and line 274 of cv_ALS_random_search.
Folds_SplitReturn ==
    /\ cv.pc = "split"
    /\ cv.k > KFold
    /\ cv' = [cv EXCEPT !.pc = "search", !.c = 1, !.f = 1]
    /\ UNCHANGED <<load, split, als, helper, stack>>

\* Line 278, the call ALS(train_tr, ...), and lines 200-218 of ALS: init_MF
\* draws the two factor matrices; the other locals are not written later.
Folds_ALSInit ==
    /\ cv.pc = "search"
    /\ cv.c <= NumCandidates
    /\ cv.f <= KFold
    /\ LET ctx == <<cv.c, cv.f>>
           mf  == NewObject(ctx, 1)
           uf  == NewObject(ctx, 2)
       IN  cv' = [cv EXCEPT
                     !.pc = "als",
                     !.als_train = cv.train_tr_list[cv.f],
                     !.movie_features = mf,
                     !.user_features = uf,
                     !.allocated = 2,
                     !.it = 0,
                     !.writes = @ \cup {<<mf.ctx, ctx>>, <<uf.ctx, ctx>>},
                     !.uses = @ \cup {<<cv.train_tr_list[cv.f], ctx, "train">>,
                                      <<mf, ctx, "movie_features">>,
                                      <<uf, ctx, "user_features">>}]
    /\ UNCHANGED <<load, split, als, helper, stack>>

\* Lines 220-235, one round: each update fills a matrix of its own
\* (np.zeros) and the local is bound to it; compute_error only reads.  The
\* round ends with the break or with it += 1.
Folds_ALSRound ==
    /\ cv.pc = "als"
    /\ cv.it < cv.iterations
    /\ LET ctx == <<cv.c, cv.f>>
           mf  == NewObject(ctx, cv.allocated + 1)
           uf  == NewObject(ctx, cv.allocated + 2)
           after == [cv EXCEPT
                        !.movie_features = mf,
                        !.user_features = uf,
                        !.allocated = cv.allocated + 2,
                        !.writes = @ \cup {<<mf.ctx, ctx>>, <<uf.ctx, ctx>>}]
       IN  \/ cv' = [after EXCEPT !.pc = "eval"]
           \/ cv' = [after EXCEPT !.it = cv.it + 1]
    /\ UNCHANGED <<load, split, als, helper, stack>>

\* Line 239: return user_features, movie_features.
Folds_ALSReturn ==
    /\ cv.pc = "als"
    /\ cv.it >= cv.iterations
    /\ cv' = [cv EXCEPT !.pc = "eval"]
    /\ UNCHANGED <<load, split, als, helper, stack>>

\* Lines 278-284: the returned factors are bound, compute_error reads them
\* and test_tr; then the next fold, or the next candidate (lines 285-295
\* write no matrix).
Folds_Eval ==
    /\ cv.pc = "eval"
    /\ LET ctx == <<cv.c, cv.f>>
           evaluated ==
               [cv EXCEPT
                   !.pc = "search",
                   !.cv_movie_features = cv.movie_features,
                   !.cv_user_features = cv.user_features,
                   !.uses = @ \cup {<<cv.test_tr_list[cv.f], ctx, "test">>}]
       IN  \/ /\ cv.f < KFold
              /\ cv' = [evaluated EXCEPT !.f = cv.f + 1]
           \/ /\ cv.f >= KFold
              /\ cv' = [evaluated EXCEPT !.f = 1, !.c = cv.c + 1]
    /\ UNCHANGED <<load, split, als, helper, stack>>

\* Lines 297-302.
Folds_Return ==
    /\ cv.pc = "search"
    /\ cv.c > NumCandidates
    /\ cv' = [cv EXCEPT !.pc = "returned"]
    /\ UNCHANGED <<load, split, als, helper, stack>>

NextFolds ==
    \/ Folds_NewFold
    \/ Folds_Movie
    \/ Folds_EndFold
    \/ Folds_SplitReturn
    \/ Folds_ALSInit
    \/ Folds_ALSRound
    \/ Folds_ALSReturn
    \/ Folds_Eval
    \/ Folds_Return

SpecFolds == InitFolds /\ [][NextFolds]_vars

(***************************************************************************)
(* compute_error and build_index_groups called on their own.  The frame    *)
(* helper holds the arguments of the one that is called (fn) and, once it  *)
(* has returned, its result.  pc: "call", "returned", "raised".            *)
(***************************************************************************)
\* Every pattern of stored entries of a (NumUsers + 1) x NumMovies matrix;
\* nonzero() and the groups read the positions of the entries only.
AllMatrices ==
    [shape : {<<NumUsers + 1, NumMovies>>},
     val : [(0..NumUsers) \X (0..(NumMovies - 1)) -> {0, Scale}]]

FeatureValues == {0, Scale}

\* The first n pairs of a list of pairs.
Prefixes(nz) == {SubSeq(nz, 1, n) : n \in 0..Len(nz)}

ComputeErrorEntry(data, movie_features, user_features, nz) ==
    [pc |-> "call",
     fn |-> "compute_error",
     data |-> data,
     movie_features |-> movie_features,
     user_features |-> user_features,
     nz |-> nz,
     rmse |-> 0,
     err |-> "none"]

BuildIndexGroupsEntry(train) ==
    [pc |-> "call",
     fn |-> "build_index_groups",
     train |-> train,
     nz_train |-> <<>>,
     nz_row_colindices |-> <<>>,
     nz_col_rowindices |-> <<>>]

InitHelper ==
    /\ \/ \E d \in TrainMatrices :
             \E mf \in [0..(NumMovies - 1) -> FeatureValues],
                uf \in [0..(NumUsers - 1) -> FeatureValues],
                nz \in Prefixes(Nonzero(d)) :
                   helper = ComputeErrorEntry(d, mf, uf, nz)
       \/ \E t \in AllMatrices : helper = BuildIndexGroupsEntry(t)
    /\ load = Idle
    /\ split = Idle
    /\ als = Idle
    /\ cv = Idle
    /\ stack = Idle

\* compute_error(data, movie_features, user_features, nz), lines 143-153.
Helper_ComputeError ==
    /\ helper.pc = "call"
    /\ helper.fn = "compute_error"
    /\ LET r == compute_error(helper.data, helper.movie_features,
                              helper.user_features, helper.nz)
       IN  \/ /\ r.err = "none"
              /\ helper' = [helper EXCEPT !.pc = "returned", !.rmse = r.val]
           \/ /\ r.err # "none"
              /\ helper' = [helper EXCEPT !.pc = "raised", !.err = r.err]
    /\ UNCHANGED <<load, split, als, cv, stack>>

\* build_index_groups(train), lines 58-74.
Helper_BuildIndexGroups ==
    /\ helper.pc = "call"
    /\ helper.fn = "build_index_groups"
    /\ LET r == build_index_groups(helper.train)
       IN  helper' = [helper EXCEPT !.pc = "returned",
                                    !.nz_train = r[1],
                                    !.nz_row_colindices = r[2],
                                    !.nz_col_rowindices = r[3]]
    /\ UNCHANGED <<load, split, als, cv, stack>>

NextHelper ==
    \/ Helper_ComputeError
    \/ Helper_BuildIndexGroups

SpecHelper == InitHelper /\ [][NextHelper]_vars

(***************************************************************************)
(* stack.py: load_predictions, stack and get_best_weights.  The frame      *)
(* stack holds the prediction files of the folder, the weight vector and   *)
(* the locals of load_predictions and stack.  pc: "load" (lines 174-179),  *)
(* "merge" (181-185), "stack" (216-222), "returned", "raised".             *)
(*                                                                         *)
(* A cell of a table is <<v>> for the number v and <<>> for NaN.  A table  *)
(* is its set of (User, Movie) keys (rows), the names of its prediction    *)
(* columns and the cell of every column at every key.                      *)
(***************************************************************************)
NumModels == 2

ModelNames == 1..NumModels

\* load_models: the catalogue, families of named models in the order in
\* which the dict is iterated.
load_models ==
    <<[key |-> "baseline", names |-> <<1>>],
      [key |-> "surprise", names |-> [i \in 1..(NumModels - 1) |-> i + 1]]>>

StackPairs == {<<1, 1>>, <<1, 2>>}

PredictionValues == {Scale, 2 * Scale}

WeightValues == {0, Scale \div 2, Scale}

NaN == <<>>

Cells == {NaN} \cup {<<v>> : v \in PredictionValues}

\* The sum that leaves a NaN operand out.
NanAdd_SkipNaN(a, b) ==
    IF b = NaN THEN a ELSE IF a = NaN THEN b ELSE <<a[1] + b[1]>>

\* a + b and w * a of numpy and pandas: NaN when an operand is NaN.
NanAdd(a, b) == IF a = NaN \/ b = NaN THEN NaN ELSE <<a[1] + b[1]>>

NanMul(w, a) == IF a = NaN THEN NaN ELSE <<FMul(w, a[1])>>

\* A prediction file of the folder: the Rating of the keys it has a row
\* for; present is FALSE when the folder has no file of the model.
NoFile == [present |-> FALSE, rating |-> [p \in StackPairs |-> NaN]]

Files ==
    {NoFile} \cup [present : {TRUE}, rating : [StackPairs -> Cells]]

FileKeys(file) == {p \in StackPairs : file.rating[p] # NaN}

RECURSIVE PresentFrom(_, _)
PresentFrom(files, n) ==
    IF n > NumModels THEN <<>>
    ELSE IF files[n].present THEN <<n>> \o PresentFrom(files, n + 1)
         ELSE PresentFrom(files, n + 1)

\* pred_array: the names of the models the folder has a file of.
PredArray(files) == PresentFrom(files, 1)

\* The (family, name) pairs in the order of the two nested for loops.
RECURSIVE ModelOrder(_)
ModelOrder(models) ==
    IF models = <<>> THEN <<>>
    ELSE [j \in 1..Len(Head(models).names) |->
             <<Head(models).key, Head(models).names[j]>>]
         \o ModelOrder(Tail(models))

\* The weight of every model under idx = 0 for all of them.
WeightAt_First(weights, idx) == weights[1]

\* weight = weights[idx]
WeightAt(weights, idx) == weights[idx + 1]

\* best_dict of get_best_weights: res.x[idx], idx counted over the families
\* and over the names of each family.
get_best_weights(res_x, models) ==
    [k \in {models[f].key : f \in 1..Len(models)} |->
        LET f == CHOOSE g \in 1..Len(models) : models[g].key = k
            before == SumSeq([g \in 1..(f - 1) |-> Len(models[g].names)])
        IN  [n \in SeqToSet(models[f].names) |->
                LET j == CHOOSE i \in 1..Len(models[f].names) :
                            models[f].names[i] = n
                IN  res_x[before + j]]]

StackEntry(files, weights) ==
    [pc |-> "load",
     files |-> files,
     weights |-> weights,
     models |-> load_models,
     pred_array |-> PredArray(files),
     i |-> 1,
     predictions |-> [rows |-> {}, columns |-> {},
                      cell |-> [n \in ModelNames |->
                                   [p \in StackPairs |-> NaN]]],
     stacked |-> [p \in StackPairs |-> NaN],
     idx |-> 0,
     pred |-> [p \in {} |-> NaN],
     err |-> "none"]

InitStack ==
    /\ \E files \in [ModelNames -> Files] :
          \E weights \in [1..NumModels -> WeightValues] :
             stack = StackEntry(files, weights)
    /\ load = Idle
    /\ split = Idle
    /\ als = Idle
    /\ cv = Idle
    /\ helper = Idle

\* Lines 174-179: the keys of the first file; pred_array[0] of an empty
\* folder raises.
Stack_LoadFirst ==
    /\ stack.pc = "load"
    /\ \/ /\ stack.pred_array = <<>>
          /\ stack' = [stack EXCEPT !.pc = "raised", !.err = "IndexError"]
       \/ /\ stack.pred_array # <<>>
          /\ stack' = [stack EXCEPT
                          !.pc = "merge",
                          !.predictions.rows =
                              FileKeys(stack.files[stack.pred_array[1]])]
    /\ UNCHANGED <<load, split, als, cv, helper>>

\* Lines 181-185: the outer merge with one file on (User, Movie).
Stack_Merge ==
    /\ stack.pc = "merge"
    /\ stack.i <= Len(stack.pred_array)
    /\ LET name == stack.pred_array[stack.i]
           p    == stack.files[name]
       IN  stack' = [stack EXCEPT
                        !.predictions.rows = @ \cup FileKeys(p),
                        !.predictions.columns = @ \cup {name},
                        !.predictions.cell[name] = p.rating,
                        !.i = stack.i + 1]
    /\ UNCHANGED <<load, split, als, cv, helper>>

\* Line 187, then lines 216-217 of stack: stacked = np.zeros, idx = 0.
Stack_Loaded ==
    /\ stack.pc = "merge"
    /\ stack.i > Len(stack.pred_array)
    /\ stack' = [stack EXCEPT
                    !.pc = "stack",
                    !.stacked = [p \in StackPairs |->
                                    IF p \in stack.predictions.rows
                                    THEN <<0>> ELSE NaN],
                    !.idx = 0]
    /\ UNCHANGED <<load, split, als, cv, helper>>

\* Lines 218-222, one model: predictions[name] raises for a name that is no
\* column of the table.
Stack_Model ==
    /\ stack.pc = "stack"
    /\ stack.idx < Len(ModelOrder(stack.models))
    /\ LET name   == ModelOrder(stack.models)[stack.idx + 1][2]
           weight == WeightAt(stack.weights, stack.idx)
       IN  \/ /\ name \notin stack.predictions.columns
              /\ stack' = [stack EXCEPT !.pc = "raised", !.err = "KeyError"]
           \/ /\ name \in stack.predictions.columns
              /\ stack' = [stack EXCEPT
                              !.stacked =
                                  [p \in StackPairs |->
                                      IF p \in stack.predictions.rows
                                      THEN NanAdd(stack.stacked[p],
                                             NanMul(weight,
                                               stack.predictions.cell[name][p]))
                                      ELSE NaN],
                              !.idx = stack.idx + 1]
    /\ UNCHANGED <<load, split, als, cv, helper>>

\* Lines 224-226: pred['Rating'] = stacked, row by row.
Stack_Return ==
    /\ stack.pc = "stack"
    /\ stack.idx >= Len(ModelOrder(stack.models))
    /\ stack' = [stack EXCEPT
                    !.pc = "returned",
                    !.pred = [p \in stack.predictions.rows |->
                                 stack.stacked[p]]]
    /\ UNCHANGED <<load, split, als, cv, helper>>

NextStack ==
    \/ Stack_LoadFirst
    \/ Stack_Merge
    \/ Stack_Loaded
    \/ Stack_Model
    \/ Stack_Return

SpecStack == InitStack /\ [][NextStack]_vars

(***************************************************************************)
(* Properties of the ALS solver (checked under SpecALS).                   *)
(***************************************************************************)
RECURSIVE SetSum(_, _)
SetSum(S, f) ==
    IF S = {} THEN 0
    ELSE LET x == CHOOSE y \in S : TRUE
         IN  f[x] + SetSum(S \ {x}, f)

\* The users with an observed rating of movie m in the training matrix.
RatersOf(m) == {u \in Rows(als.train) : als.train.val[<<u, m>>] # 0}

\* The movies with an observed rating by user u.
RatedBy(u) == {m \in Cols(als.train) : als.train.val[<<u, m>>] # 0}

\* U_m U_m^T + n_m * lambda_movie, over exactly the raters of m.
NormalA(m) ==
    SetSum(RatersOf(m),
           [u \in RatersOf(m) |->
               FMul(als.user_features[u], als.user_features[u])])
      + Cardinality(RatersOf(m)) * als.lambda_movie

\* U_m r_m, over exactly the raters of m and their ratings of m.
NormalV(m) ==
    SetSum(RatersOf(m),
           [u \in RatersOf(m) |->
               FMul(als.user_features[u], als.train.val[<<u, m>>])])

\* C1: right after a movie-factor update (the user factors are still the
\* ones it read), the column of every movie m with at least one observation
\* solves (U_m U_m^T + n_m lambda_movie I) z = U_m r_m, where U_m, r_m and
\* n_m range over exactly the users who rated m: z is the quotient
\* U_m r_m / (U_m U_m^T + n_m lambda_movie), rounded down to a unit.
C1_MovieColumnSolvesNormalEquation ==
    als.pc = "user" =>
        \A m \in Cols(als.train) :
            RatersOf(m) # {} =>
                LET A == NormalA(m)
                    V == NormalV(m)
                    z == als.movie_features[m]
                IN  /\ A > 0
                    /\ A * z <= V * Scale
                    /\ V * Scale < A * (z + 1)

\* A second-round movie update of a movie rated by two users whose factors
\* differ, with a positive regularisation.
C1_Witness ==
    /\ als.pc = "user"
    /\ als.updates_movie = 2
    /\ als.lambda_movie > 0
    /\ \E m \in Cols(als.train) :
          /\ Cardinality(RatersOf(m)) = 2
          /\ als.movie_features[m] > 0
          /\ \E u, v \in RatersOf(m) :
                als.user_features[u] # als.user_features[v]

\* The factors init_MF gave this run.
ALSInit == init_MF(als.train, als.max_weight, als.seed)

\* C2 (as claimed): at every point of an ALS run the factor column of every
\* movie without observations is the column init_MF gave it, and the column
\* of every user without observations is the one init_MF gave it.
C2_UnobservedColumnsKeepInit ==
    als.pc # "idle" =>
        /\ \A m \in Cols(als.train) :
              RatersOf(m) = {} =>
                  als.movie_features[m] = ALSInit.movie_features[m]
        /\ \A u \in Rows(als.train) :
              RatedBy(u) = {} =>
                  als.user_features[u] = ALSInit.user_features[u]

\* C2 (amended): the column of a movie without observations is the one
\* init_MF gave it only until the first movie-factor update; from then on it
\* is the zero column.  The same holds for users and the user-factor update.
C2_UnobservedColumnsAreZeroed ==
    als.pc # "idle" =>
        /\ \A m \in Cols(als.train) :
              RatersOf(m) = {} =>
                  als.movie_features[m] =
                      IF als.updates_movie = 0
                      THEN ALSInit.movie_features[m] ELSE 0
        /\ \A u \in Rows(als.train) :
              RatedBy(u) = {} =>
                  als.user_features[u] =
                      IF als.updates_user = 0
                      THEN ALSInit.user_features[u] ELSE 0

\* ALS returned after at least one round on a matrix that has a movie with
\* observations and a movie without, the latter initialised non-zero.
C2_Witness ==
    /\ als.pc = "returned"
    /\ als.updates_movie >= 1
    /\ \E m \in Cols(als.train) : RatersOf(m) # {}
    /\ \E m \in Cols(als.train) :
          /\ RatersOf(m) = {}
          /\ ALSInit.movie_features[m] # 0
          /\ als.movie_features[m] = 0

\* The rounds ALS has completed: one RMSE is appended per round.
Rounds == Len(als.error_list) - 2

\* The steps ALS has taken: factor updates, RMSE computations and the end.
C3_Progress ==
    als.updates_movie + als.updates_user + Rounds
      + (IF als.pc \in {"returned", "raised"} THEN 1 ELSE 0)

\* The facts of C3 that hold of every run, raising or not.
C3_RoundsAndCap ==
    /\ als.it <= als.iterations
    /\ Rounds <= als.iterations
    /\ C3_Progress <= 3 * als.iterations + 1
    /\ (als.pc = "returned" /\ Rounds < als.iterations) =>
          (Rounds >= 1 /\ BelowStopCriterion(als.change))
    /\ (als.pc = "returned" /\ ~BelowStopCriterion(als.change)) =>
          Rounds = als.iterations
    /\ (als.pc = "returned" /\ als.iterations = 0) =>
          /\ als.updates_movie = 0
          /\ als.updates_user = 0
          /\ als.movie_features = ALSInit.movie_features
          /\ als.user_features = ALSInit.user_features

\* C3 (as claimed): ALS always returns, after at most `iterations` rounds,
\* before the cap only on convergence, and with iterations = 0 it returns
\* the initial factors.
C3_AlwaysReturns ==
    als.pc # "idle" => (als.pc # "raised" /\ C3_RoundsAndCap)

\* C3 (amended), C3_ReturnsOrRaisesWithinCap: ALS always ends after at most `iterations` rounds, either
\* returning or raising: it raises LinAlgError from a singular solve or
\* ZeroDivisionError from the RMSE of a training matrix without observations;
\* otherwise it returns, before the cap only when the convergence test fires,
\* after exactly `iterations` rounds when it never fires, and with
\* iterations = 0 it returns the initial factors without any update.
C3_ReturnsOrRaises ==
    /\ C3_RoundsAndCap
    /\ als.pc = "raised" =>
          /\ als.iterations >= 1
          /\ \/ als.err = "LinAlgError"
             \/ als.err = "ZeroDivisionError" /\ als.nz_train = <<>>

\* Every step of ALS keeps these facts and adds to a count of at most
\* 3 * iterations + 1, so that every run ends.
C3_ReturnsOrRaisesWithinCap ==
    [][/\ C3_ReturnsOrRaises
       /\ C3_ReturnsOrRaises'
       /\ C3_Progress' > C3_Progress]_vars

\* A run that reached the cap of MaxIterations rounds unconverged.
C3_Witness ==
    /\ als.pc = "returned"
    /\ als.iterations = MaxIterations
    /\ Rounds = als.iterations
    /\ ~BelowStopCriterion(als.change)

\* ALS stopped at the break of the stopping rule: it += 1 was not reached.
ConvergedStop == als.pc = "returned" /\ als.it < als.iterations

\* |a - b| < 1e-5
WithinStopCriterion(a, b) == Abs(a - b) * StopCriterionInv < Scale

\* C16 as claimed: a stop for convergence compares the RMSEs of two
\* consecutive rounds, so that it never comes at the end of the first round.
C16_NoConvergenceInFirstRound == ConvergedStop => Rounds >= 2

\* C16: the stopping rule compares the RMSE of the round with the entry of
\* error_list before it, which is the RMSE of the round before from the
\* second round on and the initial 0 in the first round: ALS stops for
\* convergence at the first round whose RMSE is within 1e-5 of that entry,
\* and at the end of the first round exactly when the first RMSE is below
\* 1e-5.
C16_StopComparesWithPreviousEntry ==
    LET el == als.error_list
        n  == Len(el)
    IN  /\ el[1] = 0
        /\ el[2] = 0
        /\ ConvergedStop =>
              /\ Rounds >= 1
              /\ als.train_rmse = el[n]
              /\ WithinStopCriterion(el[n], el[n - 1])
        /\ \A k \in 3..(IF ConvergedStop THEN n - 1 ELSE n) :
              ~WithinStopCriterion(el[k], el[k - 1])
        /\ (ConvergedStop /\ Rounds = 1) => WithinStopCriterion(el[3], 0)
        /\ (Rounds >= 1 /\ WithinStopCriterion(el[3], 0)) =>
              (Rounds = 1 /\ ConvergedStop)

\* ALS stopped for convergence at the end of its first round, more rounds
\* being allowed.
C16_Witness ==
    /\ ConvergedStop
    /\ Rounds = 1
    /\ als.iterations > 1
    /\ Nnz(als.train) > 0

(***************************************************************************)
(* Properties of the filter and of the splits (checked under SpecSplit).   *)
(***************************************************************************)
\* The positions of m that hold a value.
Observed(m) == {p \in DOMAIN m.val : m.val[p] # 0}

\* Disjoint observed entries, and no more of them than the split matrix has.
DisjointWithin(train, test, whole) ==
    /\ Observed(train) \cap Observed(test) = {}
    /\ Nnz(train) + Nnz(test) <= Nnz(whole)

\* C4: whatever rows np.random.choice draws, the train and test matrices of
\* split_data (at every point of its loop and on return) and those of every
\* fold of split_for_cv have disjoint sets of observed entries, and together
\* no more observed entries than the matrix being split.
C4_TrainTestDisjoint ==
    /\ (split.pc \in {"loop", "returned"} /\ split.fn = "split_data") =>
          DisjointWithin(split.train, split.test, split.valid_ratings)
    /\ (split.pc # "idle" /\ split.fn = "split_for_cv") =>
          /\ Len(split.train_tr_list) = split.k
          /\ Len(split.test_tr_list) = split.k
          /\ \A i \in 1..split.k :
                DisjointWithin(split.train_tr_list[i], split.test_tr_list[i],
                               split.train)
          /\ split.pc = "movie" =>
                DisjointWithin(split.train_tr, split.test_tr, split.train)

\* split_for_cv returned folds after a draw that picked one row twice, with
\* observed entries on both sides of the last fold.
C4_Witness ==
    /\ split.pc = "returned"
    /\ split.fn = "split_for_cv"
    /\ Len(split.selects) > Cardinality(SeqToSet(split.selects))
    /\ Nnz(split.train_tr_list[split.k]) > 0
    /\ Nnz(split.test_tr_list[split.k]) > 0

\* train and test hold every observed entry of whole in exactly one of
\* them, with its rating, and hold nothing else.
PartitionOf(train, test, whole) ==
    /\ Observed(train) \cap Observed(test) = {}
    /\ Observed(train) \cup Observed(test) = Observed(whole)
    /\ \A p \in Observed(train) : train.val[p] = whole.val[p]
    /\ \A p \in Observed(test) : test.val[p] = whole.val[p]
    /\ Nnz(train) + Nnz(test) = Nnz(whole)

\* C15: the train and test matrices split_data returns partition the
\* observed entries of the valid matrix, ratings kept, and so do the two
\* matrices of every fold of split_for_cv for the matrix it splits: the nnz
\* of the two add up to the nnz of the matrix being split, whatever is drawn.
C15_TrainAndTestPartitionTheEntries ==
    /\ (split.pc = "returned" /\ split.fn = "split_data") =>
          PartitionOf(split.train, split.test, split.valid_ratings)
    /\ (split.pc # "idle" /\ split.fn = "split_for_cv") =>
          \A i \in 1..Len(split.train_tr_list) :
              PartitionOf(split.train_tr_list[i], split.test_tr_list[i],
                          split.train)

\* split_data returned after a draw that picked one row twice, with observed
\* entries on both sides.
C15_Witness ==
    /\ split.pc = "returned"
    /\ split.fn = "split_data"
    /\ Len(split.selects) > Cardinality(SeqToSet(split.selects))
    /\ Nnz(split.train) > 0
    /\ Nnz(split.test) > 0

\* C5: split_data with p_test = 0 returns a test matrix without observed
\* entries and a train matrix equal to the valid matrix, entry by entry,
\* whatever the random generator would draw.
C5_ZeroPTestKeepsAllInTrain ==
    (split.pc = "returned" /\ split.fn = "split_data" /\ split.p_test[1] = 0) =>
        /\ Nnz(split.test) = 0
        /\ split.train.shape = split.valid_ratings.shape
        /\ split.train.val = split.valid_ratings.val

\* split_data returned with p_test = 0 on a valid matrix with three entries.
C5_Witness ==
    /\ split.pc = "returned"
    /\ split.fn = "split_data"
    /\ split.p_test[1] = 0
    /\ Nnz(split.valid_ratings) = 3
    /\ Nnz(split.train) = 3

\* The rows of the original matrix with at least n observed entries.
RowsWithAtLeast(m, n) ==
    {r \in Rows(m) :
        Cardinality({c \in Cols(m) : m.val[<<r, c>>] # 0}) >= n}

\* The columns of the original matrix with at least n observed entries.
ColsWithAtLeast(m, n) ==
    {c \in Cols(m) :
        Cardinality({r \in Rows(m) : m.val[<<r, c>>] # 0}) >= n}

Ascending(s) == \A i, j \in 1..Len(s) : i < j => s[i] < s[j]

\* C6: the filter of split_data keeps exactly the rows, and exactly the
\* columns, whose count of observed entries in the original matrix is
\* >= min_num_ratings (each decided on the original matrix alone), the valid
\* matrix is the original restricted to them, and with min_num_ratings = 0
\* it has the shape and the nnz of the original.
C6_FilterKeepsRowsAndColsIndependently ==
    (split.pc \in {"loop", "returned"} /\ split.fn = "split_data") =>
        /\ SeqToSet(split.valid_users)
              = RowsWithAtLeast(split.ratings, split.min_num_ratings)
        /\ SeqToSet(split.valid_movies)
              = ColsWithAtLeast(split.ratings, split.min_num_ratings)
        /\ Ascending(split.valid_users)
        /\ Ascending(split.valid_movies)
        /\ split.valid_ratings.shape
              = <<Len(split.valid_users), Len(split.valid_movies)>>
        /\ \A i \in 1..Len(split.valid_users) :
              \A j \in 1..Len(split.valid_movies) :
                 split.valid_ratings.val[<<i - 1, j - 1>>]
                    = split.ratings.val[<<split.valid_users[i],
                                          split.valid_movies[j]>>]
        /\ split.min_num_ratings = 0 =>
              /\ split.valid_ratings.shape = split.ratings.shape
              /\ Nnz(split.valid_ratings) = Nnz(split.ratings)

\* The filter kept a row that has fewer than min_num_ratings entries left in
\* the valid matrix, and dropped another row and a column.
C6_Witness ==
    /\ split.pc = "loop"
    /\ split.fn = "split_data"
    /\ split.min_num_ratings = 2
    /\ Len(split.valid_users) < split.ratings.shape[1]
    /\ Len(split.valid_movies) < split.ratings.shape[2]
    /\ \E r \in Rows(split.valid_ratings) :
          Cardinality({c \in Cols(split.valid_ratings) :
                          split.valid_ratings.val[<<r, c>>] # 0})
             < split.min_num_ratings

(***************************************************************************)
(* Properties of the loader (checked under SpecLoad).                      *)
(***************************************************************************)
\* Some parsed record has a row or a column index that is not positive.
HasNonPositiveIndex(data) ==
    \E i \in 1..Len(data) : data[i][1] <= 0 \/ data[i][2] <= 0

\* C10: when a parsed record has a row or column index <= 0, preprocess_data
\* fails and returns no matrix (so that no such record is stored anywhere).
C10_NonPositiveIndexIsRejected ==
    HasNonPositiveIndex(load.data) => load.pc # "returned"

(***************************************************************************)
(* Properties of the random search (checked under SpecCV).                 *)
(***************************************************************************)
\* The first candidate whose mean RMSE no other candidate is below.
EarliestArgmin(means) ==
    CHOOSE i \in 1..Len(means) :
        /\ \A j \in 1..Len(means) : means[i] <= means[j]
        /\ \A j \in 1..(i - 1) : means[j] > means[i]

\* (num_features, weight, lambda_movie, lambda_user) of candidate i.
CandidateTuple(i) ==
    <<cv.nb_features[i], cv.weights[i], cv.lambda_movies[i], cv.lambda_users[i]>>

AllCandidatesEvaluated == Len(cv.means) = NumCandidates

\* Whenever the search returns, it returns the tuple of the earliest
\* candidate of lowest mean RMSE.
CV_ReturnedIsEarliestArgmin ==
    cv.pc = "returned" =>
        /\ AllCandidatesEvaluated
        /\ cv.result = CandidateTuple(EarliestArgmin(cv.means))

\* C7: once every candidate has been evaluated the search returns, and what
\* it returns is the whole tuple of the candidate of lowest mean RMSE, the
\* earliest one among equals.
C7_ReturnsTupleOfLowestMean ==
    (AllCandidatesEvaluated /\ cv.pc \in {"returned", "raised"}) =>
        /\ cv.pc = "returned"
        /\ cv.result = CandidateTuple(EarliestArgmin(cv.means))

SomeCandidateImproved ==
    \E i \in 1..Len(cv.means) : cv.means[i] < InitialBestRmse * Scale

\* C8 as claimed: the step taken on an improved mean RMSE leaves the variable
\* the return statement reads for lambda_user as it was.
C8_ImprovedBranchLeavesReturnedVariable ==
    [][(cv.pc = "fold" /\ cv'.best_rmse < cv.best_rmse)
          => ReturnedLambdaUser(cv') = ReturnedLambdaUser(cv)]_vars

\* C8: best_lambda_user is never assigned and keeps the sentinel, but it is
\* not what is returned: the improved branch stores lambda_user in
\* bset_lambda_user, which the return statement reads, so that a returned
\* lambda_user is the one of the best candidate and never the sentinel.
C8_ReturnedLambdaUserIsTheBestCandidates ==
    /\ cv.best_lambda_user = NotFound
    /\ cv.pc = "returned" =>
          /\ SomeCandidateImproved
          /\ cv.result[4] = cv.lambda_users[EarliestArgmin(cv.means)]
          /\ cv.result[4] # NotFound

C8_Witness ==
    /\ cv.pc = "returned"
    /\ EarliestArgmin(cv.means) > 1
    /\ cv.best_lambda_user = NotFound
    /\ cv.result[4] = cv.lambda_users[EarliestArgmin(cv.means)]

\* C9: an error raised in one fold of one candidate does not end the search.
C9_FoldErrorSkipsOnlyTheCandidate ==
    cv.pc = "raised" => cv.err # "ZeroDivisionError"

(***************************************************************************)
(* Properties of compute_error and build_index_groups (checked under       *)
(* SpecHelper).                                                            *)
(***************************************************************************)
ComputeErrorDone ==
    /\ helper.pc \in {"returned", "raised"}
    /\ helper.fn = "compute_error"

\* C11: compute_error with an empty list of pairs returns no number, it
\* raises the division by zero, whatever the ratings and the factors are.
C11_EmptyPairsRaise ==
    (ComputeErrorDone /\ helper.nz = <<>>) =>
        /\ helper.pc = "raised"
        /\ helper.err = "ZeroDivisionError"

C11_Witness ==
    /\ ComputeErrorDone
    /\ helper.nz = <<>>
    /\ helper.pc = "raised"
    /\ Nnz(helper.data) > 0
    /\ \E m \in DOMAIN helper.movie_features : helper.movie_features[m] # 0

BuildIndexGroupsDone ==
    /\ helper.pc = "returned"
    /\ helper.fn = "build_index_groups"

\* The keys of a list of groups (g, array).
GroupKeys(groups) == {groups[i][1] : i \in 1..Len(groups)}

\* The pairs (key, element) a list of groups spans.
SpannedPairs(groups) ==
    UNION {{<<groups[i][1], groups[i][2][j]>> : j \in 1..Len(groups[i][2])} :
              i \in 1..Len(groups)}

Transposed(pairs) == {<<p[2], p[1]>> : p \in pairs}

\* One group for every key of keys and no other, the group of key k being
\* the elements of members(k), each once, in ascending order.
GroupsAre(groups, pairs) ==
    /\ GroupKeys(groups) = {p[1] : p \in pairs}
    /\ Len(groups) = Cardinality(GroupKeys(groups))
    /\ \A i \in 1..Len(groups) :
          /\ SeqToSet(groups[i][2])
                = {p[2] : p \in {q \in pairs : q[1] = groups[i][1]}}
          /\ Ascending(groups[i][2])

\* C12: build_index_groups returns every observed pair exactly once, one row
\* group for each row that has an observation, holding exactly that row's
\* observed columns, each once and ascending, and column groups likewise; the
\* row groups, the column groups and the pairs span the same set.
C12_GroupsPartitionObservedPairs ==
    BuildIndexGroupsDone =>
        /\ SeqToSet(helper.nz_train) = Observed(helper.train)
        /\ Len(helper.nz_train) = Nnz(helper.train)
        /\ GroupsAre(helper.nz_row_colindices, Observed(helper.train))
        /\ GroupsAre(helper.nz_col_rowindices,
                     Transposed(Observed(helper.train)))
        /\ SpannedPairs(helper.nz_row_colindices) = SeqToSet(helper.nz_train)
        /\ Transposed(SpannedPairs(helper.nz_col_rowindices))
              = SeqToSet(helper.nz_train)

\* A matrix with an empty row, and whose pairs are not in column order.
C12_Witness ==
    /\ BuildIndexGroupsDone
    /\ \E r \in Rows(helper.train) :
          r \notin GroupKeys(helper.nz_row_colindices)
    /\ \E i \in 1..Len(helper.nz_col_rowindices) :
          Len(helper.nz_col_rowindices[i][2]) > 1
    /\ \E i, j \in 1..Len(helper.nz_train) :
          i < j /\ helper.nz_train[i][2] > helper.nz_train[j][2]

(***************************************************************************)
(* Properties of the blending (checked under SpecStack).                   *)
(***************************************************************************)
CatalogueModels == SeqToSet(ModelOrder(stack.models))

\* Some model of the catalogue has no prediction for the key p in the table.
LacksPrediction(p) ==
    \E e \in CatalogueModels : stack.predictions.cell[e[2]][p] = NaN

\* sum_i weight_i * prediction_i at the key p, weight_i being the weight
\* get_best_weights reports for the model's family and name.
WeightedSum(p) ==
    LET best_dict == get_best_weights(stack.weights, stack.models)
    IN  SetSum(CatalogueModels,
               [e \in CatalogueModels |->
                   FMul(best_dict[e[1]][e[2]],
                        stack.predictions.cell[e[2]][p][1])])

\* C13: the table stack returns has the rows of the outer join; the Rating
\* of a row is NaN if and only if a model of the catalogue has no prediction
\* for the row's (User, Movie), and otherwise it is the sum over the models
\* of the catalogue of the model's reported weight times the model's
\* prediction in that row.  stack returns no table only when the folder has
\* no file of some model, which then lacks every prediction.
C13_BlendIsWeightedSumOfTheRow ==
    /\ stack.pc = "returned" =>
          /\ DOMAIN stack.pred
                = UNION {FileKeys(stack.files[n]) : n \in ModelNames}
          /\ \A p \in DOMAIN stack.pred :
                /\ stack.pred[p] = NaN <=> LacksPrediction(p)
                /\ ~LacksPrediction(p) => stack.pred[p] = <<WeightedSum(p)>>
    /\ stack.pc = "raised" =>
          \E n \in ModelNames : ~stack.files[n].present

C13_Witness ==
    /\ stack.pc = "returned"
    /\ \E p, q \in DOMAIN stack.pred :
          /\ stack.pred[p] = NaN
          /\ stack.pred[q] # NaN
          /\ stack.pred[q] # <<0>>
          /\ \E m, n \in ModelNames :
                /\ stack.predictions.cell[m][q] # stack.predictions.cell[n][q]
                /\ stack.weights[m] # stack.weights[n]
                /\ stack.weights[m] # 0
                /\ stack.weights[n] # 0

(***************************************************************************)
(* Properties of the objects of a cross-validation (checked under          *)
(* SpecFolds).                                                             *)
(***************************************************************************)
\* The matrices of the folds split so far, with the two of the fold that is
\* being split.
FoldMatrices ==
    SeqToSet(cv.train_tr_list) \cup SeqToSet(cv.test_tr_list)
       \cup ({cv.train_tr, cv.test_tr} \ {Unbound})

\* Every write goes to an object allocated in the context that writes it:
\* the input matrix is never written, the matrices of a fold are written by
\* the split of that fold only, and factor matrices by the ALS run that
\* allocated them.
WritesAreLocal == \A w \in cv.writes : w[1] = w[2]

\* The folds have matrices of their own: 2 * k distinct objects after k
\* folds, none of them the input matrix.
FoldsHaveOwnMatrices ==
    /\ cv.train \notin FoldMatrices
    /\ Cardinality(SeqToSet(cv.train_tr_list) \cup SeqToSet(cv.test_tr_list))
          = 2 * Len(cv.train_tr_list)

\* Every ALS run starts from factor matrices allocated for it.
FactorsAreOwn ==
    \A u \in cv.uses :
        u[3] \in {"movie_features", "user_features"} => u[1].ctx = u[2]

=============================================================================
